---- MODULE Spec2Model ----
(***************************************************************************)
(* Script Vault (src/scripts/script-vault.js): the Script Store, the       *)
(* Startup Registry, the Script Runner and the Startup Orchestrator.       *)
(*                                                                         *)
(* The persisted settings 'scripts' and 'startupScripts' are the variables *)
(* scripts and startupScripts; every public method of ScriptVault is one   *)
(* action (runStartupScripts, which awaits one run per registry entry, is  *)
(* one action per await).  lastCall, ret and notifications record the last *)
(* call, what it returned and what it sent to ui.notifications.            *)
(*                                                                         *)
(* The String Trap System is the bundled script (_getStringTrapSystemCode):*)
(* executing it installs two listeners. A call of a listener is an async   *)
(* function that the hook does not await: it is one action up to its first *)
(* await and one action per await after that, so that the calls for several*)
(* events interleave at their awaits. handlers holds the calls that are    *)
(* awaiting; tokens, tiles and effects are the documents of the scene.     *)
(*                                                                         *)
(* game.settings.set returns a promise. Every method awaits it, except the *)
(* default seeding that initialize calls: unflushed holds the writes a     *)
(* method has returned without awaiting, until the host resolves them.     *)
(***************************************************************************)
EXTENDS Integers, Sequences, FiniteSets, TLC

VARIABLES
    scripts,          \* setting 'scripts': identity -> Script Record
    startupScripts,   \* setting 'startupScripts': sequence of identities
    startupEnabled,   \* setting 'startupEnabled'
    isGM,             \* game.user.isGM
    now,              \* the last reading of Date.now()
    lastCall,         \* the last ScriptVault method called, with its arguments
                      \* (or the host's step that came after it)
    ret,              \* what that call returned ("throw": it rejected)
    notifications,    \* the ui.notifications messages that call emitted
    startupPc,        \* position of runStartupScripts
    startupList,      \* its local const startupScripts
    startupIdx,       \* index of the entry the for-of loop is at
    successCount,     \* its local successCount
    failCount,        \* its local failCount
    executing,        \* the scripts whose body is being executed by run
    executed,         \* the scripts runStartupScripts handed to run, in order
    stringTrapSystemLoaded,   \* window.stringTrapSystemLoaded
    hooks,            \* how many listeners Hooks.on has registered, per event
    stringTrapTokensInTraps,  \* the Map of the trap engine: key -> isIn
    tokens,           \* the token documents of the scene: x and y
    tiles,            \* canvas.tiles.placeables: the tile documents
    effects,          \* per actor: the effects the trap engine created on it
    handlers,         \* the listener calls that are awaiting, and where
    lastDamage,       \* the last applyDamage call: the actor and the total
    lastSave,         \* the last saving throw: the actor, the total, the report
    combat,           \* the Combat document: started, and the combatant's token
    unflushed         \* the game.settings.set calls a returned method left
                      \* unawaited and that have not resolved: [op, key]

vars == <<scripts, startupScripts, startupEnabled, isGM, now, lastCall, ret,
          notifications, startupPc, startupList, startupIdx, successCount,
          failCount, executing, executed, stringTrapSystemLoaded, hooks,
          stringTrapTokensInTraps, tokens, tiles, effects, handlers,
          lastDamage, lastSave, combat, unflushed>>

storeVars == <<scripts, startupScripts>>
orchVars == <<startupPc, startupList, startupIdx, successCount, failCount,
              executing, executed>>
installVars == <<stringTrapSystemLoaded, hooks>>
sceneVars == <<stringTrapTokensInTraps, tokens, tiles, effects,
               handlers, lastDamage, lastSave, combat>>
trapVars == <<installVars, sceneVars>>

----------------------------------------------------------------------------
(* Bounds and inputs *)

\* Date.now() readings range over 1..MaxTime.
MaxTime == 3

\* The identity of the bundled script.
DefaultName == "String Trap System"

\* The identities the calls are made with.
Names == {DefaultName, "A", "B"}

\* The text _getStringTrapSystemCode returns.
TrapCode == "trap"

\* The description _ensureDefaultScripts gives the bundled script.
TrapDescription == "Automatic trap triggering system"

\* A field that is undefined (the seeded record has no updatedAt).
NoTime == 0

----------------------------------------------------------------------------
(* Sequences *)

Range(s) == {s[i] : i \in 1..Len(s)}

Includes(s, x) == x \in Range(s)

NoDuplicates(s) == \A i, j \in 1..Len(s) : i # j => s[i] # s[j]

\* Array.prototype.indexOf, 1-based; 0 stands for -1.
IndexOf(s, x) ==
    IF Includes(s, x) THEN CHOOSE i \in 1..Len(s) :
                             s[i] = x /\ \A j \in 1..(i - 1) : s[j] # x
    ELSE 0

\* Array.prototype.splice(index, 1)
Splice1(s, i) == SubSeq(s, 1, i - 1) \o SubSeq(s, i + 1, Len(s))

\* [...new Set(s)]: the first occurrence of every element, in order.
RECURSIVE Dedup(_)
Dedup(s) ==
    IF s = <<>> THEN <<>>
    ELSE LET front == Dedup(SubSeq(s, 1, Len(s) - 1))
             x == s[Len(s)]
         IN IF Includes(front, x) THEN front ELSE Append(front, x)

----------------------------------------------------------------------------
(* Script Records and the Script Store *)

\* The object literal of saveScript (lines 94-101).
ScriptRecord(name, code, description, isStartup, createdAt, updatedAt) ==
    [name |-> name, code |-> code, description |-> description,
     isStartup |-> isStartup, createdAt |-> createdAt, updatedAt |-> updatedAt]

\* scripts[name] is defined (the record is truthy).
HasScript(store, name) == name \in DOMAIN store

\* scripts[name] = record
SetScript(store, name, record) ==
    [k \in DOMAIN store \cup {name} |-> IF k = name THEN record ELSE store[k]]

\* delete scripts[name]
DeleteKey(store, name) == [k \in DOMAIN store \ {name} |-> store[k]]

\* { ...a, ...b }
Spread(a, b) ==
    [k \in DOMAIN a \cup DOMAIN b |-> IF k \in DOMAIN b THEN b[k] ELSE a[k]]

\* getScript, for an identity that has a record.
getScript(store, name) == store[name]

\* The record _ensureDefaultScripts inserts: it has no updatedAt.
DefaultRecord(t) ==
    ScriptRecord(DefaultName, TrapCode, TrapDescription, TRUE, t, NoTime)

\* A saveScript that stamps createdAt anew on every save.
CreatedAtAlwaysNow(store, name, t) == t

\* existingScript?.createdAt || Date.now()
CreatedAtOf(store, name, t) ==
    IF HasScript(store, name) /\ store[name].createdAt # NoTime
    THEN store[name].createdAt ELSE t

\* The store saveScript writes: t1 and t2 are its two readings of Date.now().
saveScriptStore(store, name, code, description, isStartup, t1, t2) ==
    SetScript(store, name,
              ScriptRecord(name, code, description, isStartup,
                           CreatedAtOf(store, name, t1), t2))

\* The store deleteScript writes.
deleteScriptStore(store, name) == DeleteKey(store, name)

\* The store renameScript writes: the copy under newName is assigned first, then
\* oldName is deleted (so renaming a record to its own name deletes it).
renameScriptStore(store, oldName, newName) ==
    IF HasScript(store, oldName)
    THEN DeleteKey(SetScript(store, newName,
                             [store[oldName] EXCEPT !.name = newName]),
                   oldName)
    ELSE store

----------------------------------------------------------------------------
(* The Startup Registry *)

\* isStartupEnabled
isStartupEnabled(startup, name) == Includes(startup, name)

\* An enableStartup without the includes test.
enableStartupAlwaysPush(startup, name) == Append(startup, name)

\* The registry enableStartup writes.
enableStartupList(startup, name) ==
    IF ~Includes(startup, name) THEN Append(startup, name) ELSE startup

\* The registry disableStartup writes: indexOf finds the first occurrence and
\* splice removes that one entry.
disableStartupList(startup, name) ==
    IF IndexOf(startup, name) # 0
    THEN Splice1(startup, IndexOf(startup, name)) ELSE startup

\* The registry toggleStartup writes.
toggleStartupList(startup, name) ==
    IF isStartupEnabled(startup, name)
    THEN disableStartupList(startup, name)
    ELSE enableStartupList(startup, name)

\* What toggleStartup returns.
toggleStartupResult(startup, name) ==
    IF isStartupEnabled(startup, name) THEN FALSE ELSE TRUE

\* The registry renameScript writes: the entry at indexOf(oldName) is assigned
\* newName.
renameScriptList(store, startup, oldName, newName) ==
    IF HasScript(store, oldName) /\ IndexOf(startup, oldName) # 0
    THEN [startup EXCEPT ![IndexOf(startup, oldName)] = newName]
    ELSE startup

\* The registry saveScript writes.
saveScriptList(startup, name, isStartup) ==
    IF isStartup THEN enableStartupList(startup, name)
    ELSE disableStartupList(startup, name)

\* A seeding that inserts the default record without the existence test.
ensureDefaultOverwrites(store, t) ==
    SetScript(store, DefaultName, DefaultRecord(t))

\* The store and the registry _ensureDefaultScripts writes; t is its reading of
\* Date.now().
ensureDefaultStore(store, t) ==
    IF ~HasScript(store, DefaultName)
    THEN SetScript(store, DefaultName, DefaultRecord(t)) ELSE store

ensureDefaultList(store, startup) ==
    IF ~HasScript(store, DefaultName) /\ ~Includes(startup, DefaultName)
    THEN Append(startup, DefaultName) ELSE startup

\* An unawaited write: the method that called game.settings.set and dropped
\* the promise, and the setting written.
Unawaited(op, key) == [op |-> op, key |-> key]

\* The writes _ensureDefaultScripts issues without awaiting them: its two
\* game.settings.set calls are plain statements of a method that is not async,
\* and initialize calls it as a plain statement too.
ensureDefaultUnawaited(store, startup) ==
    IF HasScript(store, DefaultName) THEN {}
    ELSE {Unawaited("initialize", "scripts")}
         \cup IF Includes(startup, DefaultName) THEN {}
              ELSE {Unawaited("initialize", "startupScripts")}

----------------------------------------------------------------------------
(* Import *)

\* A record of an imported file (exportScripts writes the records as stored).
ImportedRecord(name, isStartup) ==
    ScriptRecord(name, "return 1;", "imported", isStartup, 1, 1)

\* What JSON.parse(await file.text()) gives: parses is FALSE when it throws;
\* hasScripts and startupKind say whether data.scripts and data.startupScripts
\* are there ("malformed": a truthy value that is not iterable).
ImportData(parses, hasScripts, importedScripts, startupKind, importedStartup) ==
    [parses |-> parses, hasScripts |-> hasScripts, scripts |-> importedScripts,
     startupKind |-> startupKind, startupScripts |-> importedStartup]

\* Whether the try block of importScripts throws, and where.
importThrows(data) == ~data.parses \/ data.startupKind = "malformed"

\* The store importScripts writes: the merge of data.scripts is written before
\* data.startupScripts is looked at.
importScriptsStore(store, data) ==
    IF data.parses /\ data.hasScripts THEN Spread(store, data.scripts) ELSE store

\* The registry importScripts writes.
importScriptsList(startup, data) ==
    IF data.parses /\ data.startupKind = "array"
    THEN Dedup(startup \o data.startupScripts) ELSE startup

----------------------------------------------------------------------------
(* The Script Runner *)

\* Script texts by what running them does.
CodeCompletes == "return 1;"
CodeSyntaxError == "if ("
CodeThrowsError == "throw new Error('x');"
CodeThrowsNull == "throw null;"

Codes == {TrapCode, CodeCompletes, CodeSyntaxError, CodeThrowsError,
          CodeThrowsNull}

\* What the try block of run does with a script text: "completed", or the kind
\* of value thrown by new Function or by the awaited body.
Execute(code) ==
    CASE code = CodeSyntaxError -> "error"
      [] code = CodeThrowsError -> "error"
      [] code = CodeThrowsNull -> "nullish"
      [] OTHER -> "completed"

\* What run returns; "throw" when it rejects. The catch block reads
\* error.message, which throws a TypeError when the value caught is null or
\* undefined.
runResult(store, name) ==
    IF ~HasScript(store, name) THEN "false"
    ELSE CASE Execute(store[name].code) = "completed" -> "true"
           [] Execute(store[name].code) = "error" -> "false"
           [] OTHER -> "throw"

\* The ui.notifications messages run emits.
runNotifications(store, name) ==
    IF ~HasScript(store, name) THEN <<"error">>
    ELSE IF Execute(store[name].code) = "error" THEN <<"error">> ELSE <<>>

----------------------------------------------------------------------------
(* The String Trap System: what executing the bundled script installs *)

\* No listener is registered.
NoHooks == [updateToken |-> 0, combatTurn |-> 0]

\* A bundled script that does not test window.stringTrapSystemLoaded.
installedHooksUnguarded(code, loaded, registered) ==
    IF code = TrapCode
    THEN [updateToken |-> registered.updateToken + 1,
          combatTurn |-> registered.combatTurn + 1]
    ELSE registered

\* The listeners registered once a script text has been executed: the bundled
\* script calls Hooks.on for "updateToken" and for "combatTurn" when the flag
\* is not set.
installedHooks(code, loaded, registered) ==
    IF code = TrapCode /\ ~loaded
    THEN [updateToken |-> registered.updateToken + 1,
          combatTurn |-> registered.combatTurn + 1]
    ELSE registered

\* window.stringTrapSystemLoaded once a script text has been executed.
installedFlag(code, loaded) == loaded \/ code = TrapCode

\* asyncFunc(): the body of the script runs up to its first await. The bundled
\* script has none and installs the trap engine at once.
executeScript(name) ==
    /\ stringTrapSystemLoaded'
         = installedFlag(scripts[name].code, stringTrapSystemLoaded)
    /\ hooks' = installedHooks(scripts[name].code, stringTrapSystemLoaded, hooks)

----------------------------------------------------------------------------
(* The scene the trap engine works on *)

\* canvas.grid.size
GridSize == 1

\* A tile document with its "string-trap" flags.
TileDocument(id, x, y, width, height, isActive, isDot, damage) ==
    [id |-> id, x |-> x, y |-> y, width |-> width, height |-> height,
     isActive |-> isActive, isDot |-> isDot, damage |-> damage,
     type |-> "String Trap", explosionSize |-> 0, condition |-> "",
     saveDC |-> 0]

\* The tile with flags.type and flags.explosionSize set.
WithExplosion(tile, type, explosionSize) ==
    [tile EXCEPT !.type = type, !.explosionSize = explosionSize]

\* The tile with flags.condition and flags.saveDC set.
WithCondition(tile, condition, saveDC) ==
    [tile EXCEPT !.condition = condition, !.saveDC = saveDC]

\* A token document; its actor is not shared with another token.
TokenDocument(x, y, actorId) ==
    [x |-> x, y |-> y, width |-> 1, height |-> 1, actorId |-> actorId]

\* A single-use trap two cells high and a damage-over-time trap of one cell,
\* which touch along an edge; the cell at the origin touches both.
SceneTiles ==
    <<TileDocument("k1", GridSize, 0, GridSize, 2 * GridSize, TRUE, FALSE,
                   "1"),
      TileDocument("k2", 0, GridSize, GridSize, GridSize, TRUE, TRUE, "1d4")>>

TileIds == {"k1", "k2"}

\* Two tokens, each away from both traps.
SceneTokens ==
    [t \in {"t1", "t2"} |->
       IF t = "t1" THEN TokenDocument(0, 0, "a1") ELSE TokenDocument(0, 0, "a2")]

TokenIds == DOMAIN SceneTokens

\* canvas.tokens.placeables, in its order.
Placeables == <<"t1", "t2">>

ActorIds == {SceneTokens[t].actorId : t \in TokenIds}

\* A listener call that has returned.
NoHandler ==
    [pc |-> "done", hook |-> "", tokenId |-> "", x |-> 0, y |-> 0,
     traps |-> <<>>, entered |-> {}, hits |-> <<>>, total |-> 0]

\* At most MaxHandlers listener calls are awaiting at a time.
MaxHandlers == 2

\* No damage applied yet.
NoDamage == [actorId |-> "", total |-> 0]

\* No saving throw made yet.
NoSave == [actorId |-> "", total |-> 0, resisted |-> FALSE]

\* The scene as loaded, the bundled script not executed.
InitScene ==
    /\ stringTrapSystemLoaded = FALSE
    /\ hooks = NoHooks
    /\ stringTrapTokensInTraps = [key \in TileIds \X TokenIds |-> FALSE]
    /\ tokens = SceneTokens
    /\ tiles = SceneTiles
    /\ effects = [a \in ActorIds |-> <<>>]
    /\ handlers = [h \in 1..MaxHandlers |-> NoHandler]
    /\ lastDamage = NoDamage
    /\ lastSave = NoSave
    /\ combat = [started |-> FALSE, tokenId |-> "t1"]

----------------------------------------------------------------------------
(* The "updateToken" listener *)

\* Line 335: the token's rectangle at (newX, newY) against the tile's.
isIn(newX, newY, tokenW, tokenH, tile) ==
    ~(\/ newX + tokenW <= tile.x
      \/ newX >= tile.x + tile.width
      \/ newY + tokenH <= tile.y
      \/ newY >= tile.y + tile.height)

\* Line 322: the indexes of the tiles whose isActive flag is set.
ActiveTraps(tileDocs) ==
    LET Active(i) == tileDocs[i].isActive
    IN SelectSeq([i \in 1..Len(tileDocs) |-> i], Active)

\* actor.effects.find(e => e.flags["string-trap"].dotTileId === id)
HasDotEffect(actorEffects, id) ==
    \E i \in 1..Len(actorEffects) : actorEffects[i].dotTileId = id

\* The effect of lines 409-414.
DotEffect(tile) == [dotTileId |-> tile.id, damage |-> tile.damage]

\* The effects left when the first one tagged with id is deleted.
DeleteDotEffect(actorEffects, id) ==
    LET i == CHOOSE j \in 1..Len(actorEffects) :
               /\ actorEffects[j].dotTileId = id
               /\ \A l \in 1..(j - 1) : actorEffects[l].dotTileId # id
    IN Splice1(actorEffects, i)

\* Lines 405-422, reached once the damage of an entry is dealt with: the call
\* the listener awaits next for the tile, "" when it awaits none.
AfterSave(tile, actorEffects) ==
    IF tile.isDot
    THEN IF HasDotEffect(actorEffects, tile.id) THEN "" ELSE "creating"
    ELSE "deactivating"

\* Lines 381-403, reached once the damage of an entry is dealt with: a trap
\* with the condition "paralyzed" has the actor roll a save ("saving").
AfterDamage(tile, actorEffects) ==
    IF tile.condition = "paralyzed" THEN "saving"
    ELSE AfterSave(tile, actorEffects)

\* Line 385: flags.saveDC || 15.
DefaultDC == 15

dc(tile) == IF tile.saveDC = 0 THEN DefaultDC ELSE tile.saveDC

\* The effect of line 395: it carries no "string-trap" flags.
ParalyzedEffect == [dotTileId |-> "", damage |-> "", statuses |-> "paralyzed"]

\* Line 355: the trap explodes.
isLandmine(tile) == tile.type = "Landmine Trap" /\ tile.explosionSize # 0

\* Lines 356-363 in quarters of a pixel, so that every term is an integer:
\* twice the offset between the two centers, four times the radius, and the
\* comparison Math.sqrt(dx^2 + dy^2) <= radius on the squares.
Sq(n) == n * n

CenterOffset2(tokenDoc, tile) ==
    [dx |-> (2 * tokenDoc.x + tokenDoc.width * GridSize)
              - (2 * tile.x + tile.width),
     dy |-> (2 * tokenDoc.y + tokenDoc.height * GridSize)
              - (2 * tile.y + tile.height)]

radius4(tile) == 3 * tile.explosionSize * GridSize

\* A filter that leaves out the tokens at exactly the radius.
hitTokensExclusive(tile, tokenDocs) ==
    LET Hit(t) == LET o == CenterOffset2(tokenDocs[t], tile)
                  IN 4 * (Sq(o.dx) + Sq(o.dy)) < Sq(radius4(tile))
    IN SelectSeq(Placeables, Hit)

\* Lines 360-364: hitTokens.
hitTokens(tile, tokenDocs) ==
    LET Hit(t) == LET o == CenterOffset2(tokenDocs[t], tile)
                  IN 4 * (Sq(o.dx) + Sq(o.dy)) <= Sq(radius4(tile))
    IN SelectSeq(Placeables, Hit)

\* Lines 325-435 from the top of the loop body: the listener goes through the
\* traps left to it until it reaches an await. It sets the Map entry of every
\* tile it comes to (line 337). The result is the Map, the traps from the one
\* it awaits at, and the await: "rolling" (346-352), "creating" (409),
\* "deactivating" (421), "deleting" (430), or "done" past the last trap.
RECURSIVE Scan(_, _, _, _, _, _, _)
Scan(map, tileDocs, actorEffects, tokenId, x, y, traps) ==
    IF traps = <<>> THEN [map |-> map, traps |-> <<>>, pc |-> "done"]
    ELSE LET tile == tileDocs[Head(traps)]
             key == <<tile.id, tokenId>>
             wasIn == map[key]
             nowIn == isIn(x, y, tokens[tokenId].width * GridSize,
                           tokens[tokenId].height * GridSize, tile)
             set == [map EXCEPT ![key] = nowIn]
             await == IF ~wasIn /\ nowIn
                      THEN IF tile.damage # "" THEN "rolling"
                           ELSE AfterDamage(tile, actorEffects)
                      ELSE IF wasIn /\ ~nowIn /\ tile.isDot
                                /\ HasDotEffect(actorEffects, tile.id)
                           THEN "deleting" ELSE ""
         IN IF await # ""
            THEN [map |-> set, traps |-> traps, pc |-> await]
            ELSE Scan(set, tileDocs, actorEffects, tokenId, x, y, Tail(traps))
\* The totals a Roll of a damage formula can evaluate to: a die gives one of
\* 1..MaxRoll, the formula "1" gives 1.
MaxRoll == 2

RollTotals(formula) == IF formula = "1" THEN {1} ELSE 1..MaxRoll

\* The lowest handler slot that is free.
FreeSlot == CHOOSE h \in 1..MaxHandlers :
              /\ handlers[h].pc = "done"
              /\ \A g \in 1..(h - 1) : handlers[g].pc # "done"

\* The listener call of slot h goes on from the trap after the one it awaited
\* at, over the tile documents and the actor's effects as they now are.
Continue(h, tileDocs, actorEffects) ==
    LET me == handlers[h]
        r == Scan(stringTrapTokensInTraps, tileDocs, actorEffects, me.tokenId,
                  me.x, me.y, Tail(me.traps))
    IN /\ stringTrapTokensInTraps' = r.map
       /\ handlers' = [handlers EXCEPT
            ![h] = IF r.pc = "done" THEN NoHandler
                   ELSE [me EXCEPT !.pc = r.pc, !.traps = r.traps,
                                   !.hits = <<>>, !.total = 0]]

\* The listener call of slot h goes on within the loop body of the trap it has
\* triggered, from line 381 (the damage is dealt with) or from line 405 (the
\* save is too), to the next await, or past the trap.
GoOn(h, saveDone) ==
    LET tile == tiles[Head(handlers[h].traps)]
        actorEffects == effects'[tokens[handlers[h].tokenId].actorId]
        await == IF saveDone THEN AfterSave(tile, actorEffects)
                 ELSE AfterDamage(tile, actorEffects)
    IN IF await # ""
       THEN /\ handlers' = [handlers EXCEPT ![h].pc = await,
                                            ![h].hits = <<>>, ![h].total = 0]
            /\ UNCHANGED stringTrapTokensInTraps
       ELSE Continue(h, tiles, actorEffects)

\* Whether the rectangle of a token document overlaps that of a tile.
Overlaps(tokenDoc, tile) ==
    isIn(tokenDoc.x, tokenDoc.y, tokenDoc.width * GridSize,
         tokenDoc.height * GridSize, tile)

\* The tiles a token's move to (x, y) takes its rectangle into: those it did
\* not overlap where it was and overlaps at (x, y). The listener does not
\* compute this; a listener call carries it for the claims' sake.
Entered(tokenId, x, y) ==
    {tiles[i].id : i \in {j \in 1..Len(tiles) :
        /\ ~Overlaps(tokens[tokenId], tiles[j])
        /\ Overlaps([tokens[tokenId] EXCEPT !.x = x, !.y = y], tiles[j])}}

\* A token document is updated to (x, y) and the "updateToken" hook is called
\* (an update of neither x nor y returns at line 313 and is left out). Lines
\* 313-346: the listener runs up to its first await, if it comes to one.
updateToken(tokenId, x, y) ==
    /\ <<x, y>> # <<tokens[tokenId].x, tokens[tokenId].y>>
    /\ tokens' = [tokens EXCEPT ![tokenId].x = x, ![tokenId].y = y]
    /\ IF hooks.updateToken = 0 \/ ~isGM
       THEN UNCHANGED <<stringTrapTokensInTraps, handlers>>
       ELSE LET r == Scan(stringTrapTokensInTraps, tiles,
                          effects[tokens[tokenId].actorId], tokenId, x, y,
                          ActiveTraps(tiles))
            IN /\ stringTrapTokensInTraps' = r.map
               /\ IF r.pc = "done" THEN UNCHANGED handlers
                  ELSE /\ \E h \in 1..MaxHandlers : handlers[h].pc = "done"
                       /\ handlers' = [handlers EXCEPT ![FreeSlot] =
                            [pc |-> r.pc, hook |-> "updateToken",
                             tokenId |-> tokenId, x |-> x, y |-> y,
                             traps |-> r.traps,
                             entered |-> Entered(tokenId, x, y),
                             hits |-> <<>>, total |-> 0]]
    /\ UNCHANGED <<tiles, effects, lastDamage, lastSave, combat, installVars>>
    /\ UNCHANGED <<scripts, startupScripts, startupEnabled, isGM, unflushed,
                   now, lastCall, ret, notifications, orchVars>>

\* The formula the listener call of slot h rolls: the trap's flags.damage, or
\* the damage stored in the effect.
RolledFormula(h) ==
    IF handlers[h].hook = "updateToken"
    THEN tiles[Head(handlers[h].traps)].damage
    ELSE Head(handlers[h].traps).damage

\* The listener call of slot h has rolled for a trap that explodes.
Explodes(h) ==
    /\ handlers[h].hook = "updateToken"
    /\ isLandmine(tiles[Head(handlers[h].traps)])

\* Lines 346-375 and 450-453: the Roll has been evaluated and posted. The
\* listener calls applyDamage(roll.total, 1) on the actor of its token (lines
\* 375, 453), or, for a Landmine, on the actor of the first of the tokens it
\* hits as they now stand (lines 355-368), keeping the others and the total; a
\* Landmine that hits no token goes on to line 381.
rolled(h, total) ==
    /\ handlers[h].pc = "rolling"
    /\ total \in RollTotals(RolledFormula(h))
    /\ UNCHANGED effects
    /\ IF Explodes(h)
       THEN LET hit == hitTokens(tiles[Head(handlers[h].traps)], tokens)
            IN IF hit = <<>>
               THEN /\ GoOn(h, FALSE)
                    /\ UNCHANGED lastDamage
               ELSE /\ lastDamage' = [actorId |-> tokens[Head(hit)].actorId,
                                      total |-> total]
                    /\ handlers' = [handlers EXCEPT ![h].pc = "damaging",
                                                    ![h].hits = hit,
                                                    ![h].total = total]
                    /\ UNCHANGED stringTrapTokensInTraps
       ELSE /\ lastDamage' = [actorId |-> tokens[handlers[h].tokenId].actorId,
                              total |-> total]
            /\ handlers' = [handlers EXCEPT ![h].pc = "damaging"]
            /\ UNCHANGED stringTrapTokensInTraps
    /\ UNCHANGED <<tokens, tiles, lastSave, combat, installVars>>
    /\ UNCHANGED <<scripts, startupScripts, startupEnabled, isGM, unflushed,
                   now, lastCall, ret, notifications, orchVars>>

\* applyDamage has returned. Lines 366-371: the Landmine damages the next token
\* it hit, with the same roll.total. Lines 381-422 of "updateToken": the save
\* is rolled, the effect is created unless the actor has one for the trap, or
\* the trap is deactivated. Lines 447-456 of "combatTurn": the loop goes to the
\* next effect.
damaged(h) ==
    /\ handlers[h].pc = "damaging"
    /\ UNCHANGED effects
    /\ IF Len(handlers[h].hits) > 1
       THEN /\ lastDamage' = [actorId |-> tokens[handlers[h].hits[2]].actorId,
                              total |-> handlers[h].total]
            /\ handlers' = [handlers EXCEPT ![h].hits = Tail(@)]
            /\ UNCHANGED stringTrapTokensInTraps
       ELSE /\ UNCHANGED lastDamage
            /\ IF handlers[h].hook = "updateToken"
               THEN GoOn(h, FALSE)
               ELSE /\ handlers' = [handlers EXCEPT
                         ![h] = IF Len(handlers[h].traps) = 1 THEN NoHandler
                                ELSE [handlers[h] EXCEPT !.pc = "rolling",
                                                         !.traps = Tail(@)]]
                    /\ UNCHANGED stringTrapTokensInTraps
    /\ UNCHANGED <<tokens, tiles, lastSave, combat, installVars>>
    /\ UNCHANGED <<scripts, startupScripts, startupEnabled, isGM, unflushed,
                   now, lastCall, ret, notifications, orchVars>>

\* The totals a saving throw can come to.
MaxSave == 3

SaveTotals == 1..MaxSave

\* Lines 387-401: the save has been rolled. A total below dc has the listener
\* create the "Paralyzed" effect (line 395); any other is reported as resisted
\* (line 399) and the listener goes on to line 405.
saved(h, total) ==
    /\ handlers[h].pc = "saving"
    /\ total \in SaveTotals
    /\ LET tile == tiles[Head(handlers[h].traps)]
       IN /\ lastSave' = [actorId |-> tokens[handlers[h].tokenId].actorId,
                          total |-> total,
                          resisted |-> ~(total < dc(tile))]
          /\ UNCHANGED effects
          /\ IF total < dc(tile)
             THEN /\ handlers' = [handlers EXCEPT ![h].pc = "paralyzing"]
                  /\ UNCHANGED stringTrapTokensInTraps
             ELSE GoOn(h, TRUE)
    /\ UNCHANGED <<tokens, tiles, lastDamage, combat, installVars>>
    /\ UNCHANGED <<scripts, startupScripts, startupEnabled, isGM, unflushed,
                   now, lastCall, ret, notifications, orchVars>>

\* createEmbeddedDocuments (line 395) has returned: the actor is paralyzed.
paralyzed(h) ==
    /\ handlers[h].pc = "paralyzing"
    /\ effects' = [effects EXCEPT
         ![tokens[handlers[h].tokenId].actorId] = Append(@, ParalyzedEffect)]
    /\ GoOn(h, TRUE)
    /\ UNCHANGED <<tokens, tiles, lastDamage, lastSave, combat, installVars>>
    /\ UNCHANGED <<scripts, startupScripts, startupEnabled, isGM, unflushed,
                   now, lastCall, ret, notifications, orchVars>>

\* createEmbeddedDocuments (line 409) has returned: the actor has the effect.
created(h) ==
    /\ handlers[h].pc = "creating"
    /\ LET actorId == tokens[handlers[h].tokenId].actorId
           tile == tiles[Head(handlers[h].traps)]
       IN /\ effects' = [effects EXCEPT
               ![actorId] = Append(@, DotEffect(tile))]
          /\ Continue(h, tiles, effects'[actorId])
    /\ UNCHANGED <<tokens, tiles, lastDamage, lastSave, combat, installVars>>
    /\ UNCHANGED <<scripts, startupScripts, startupEnabled, isGM, unflushed,
                   now, lastCall, ret, notifications, orchVars>>

\* tile.document.update (line 421) has returned: the trap is not active.
deactivated(h) ==
    /\ handlers[h].pc = "deactivating"
    /\ tiles' = [tiles EXCEPT ![Head(handlers[h].traps)].isActive = FALSE]
    /\ Continue(h, tiles', effects[tokens[handlers[h].tokenId].actorId])
    /\ UNCHANGED <<tokens, effects, lastDamage, lastSave, combat, installVars>>
    /\ UNCHANGED <<scripts, startupScripts, startupEnabled, isGM, unflushed,
                   now, lastCall, ret, notifications, orchVars>>

\* effect.delete() (line 430) has returned, or has thrown because another
\* listener call has deleted the effect meanwhile; the listener call then
\* rejects and goes no further.
deleted(h) ==
    /\ handlers[h].pc = "deleting"
    /\ LET actorId == tokens[handlers[h].tokenId].actorId
           id == tiles[Head(handlers[h].traps)].id
       IN IF HasDotEffect(effects[actorId], id)
          THEN /\ effects' = [effects EXCEPT
                    ![actorId] = DeleteDotEffect(@, id)]
               /\ Continue(h, tiles, effects'[actorId])
          ELSE /\ handlers' = [handlers EXCEPT ![h] = NoHandler]
               /\ UNCHANGED <<effects, stringTrapTokensInTraps>>
    /\ UNCHANGED <<tokens, tiles, lastDamage, lastSave, combat, installVars>>
    /\ UNCHANGED <<scripts, startupScripts, startupEnabled, isGM, unflushed,
                   now, lastCall, ret, notifications, orchVars>>

----------------------------------------------------------------------------
(* The "combatTurn" listener *)

\* Line 446: the effects that carry a dotTileId.
DotEffects(actorEffects) ==
    LET Tagged(e) == e.dotTileId # ""
    IN SelectSeq(actorEffects, Tagged)

\* A "combatTurn" listener that does not test combat.started.
combatTurnUngated(started, tokenId) ==
    /\ combat' = [started |-> started, tokenId |-> tokenId]
    /\ LET dots == DotEffects(effects[tokens[tokenId].actorId])
       IN IF hooks.combatTurn = 0 \/ ~isGM \/ dots = <<>>
          THEN UNCHANGED handlers
          ELSE /\ \E h \in 1..MaxHandlers : handlers[h].pc = "done"
               /\ handlers' = [handlers EXCEPT ![FreeSlot] =
                    [pc |-> "rolling", hook |-> "combatTurn",
                     tokenId |-> tokenId, x |-> 0, y |-> 0, traps |-> dots,
                     entered |-> {}, hits |-> <<>>, total |-> 0]]
    /\ UNCHANGED <<stringTrapSystemLoaded, hooks, stringTrapTokensInTraps,
                   tokens, tiles, effects, lastDamage, lastSave>>
    /\ UNCHANGED <<scripts, startupScripts, startupEnabled, isGM, unflushed,
                   now, lastCall, ret, notifications, orchVars>>

\* The combat goes to the turn of a combatant and the "combatTurn" hook is
\* called. Lines 440-450: the listener returns, or starts on the first effect.
combatTurn(started, tokenId) ==
    /\ combat' = [started |-> started, tokenId |-> tokenId]
    /\ LET dots == DotEffects(effects[tokens[tokenId].actorId])
       IN IF hooks.combatTurn = 0 \/ ~started \/ ~isGM \/ dots = <<>>
          THEN UNCHANGED handlers
          ELSE /\ \E h \in 1..MaxHandlers : handlers[h].pc = "done"
               /\ handlers' = [handlers EXCEPT ![FreeSlot] =
                    [pc |-> "rolling", hook |-> "combatTurn",
                     tokenId |-> tokenId, x |-> 0, y |-> 0, traps |-> dots,
                     entered |-> {}, hits |-> <<>>, total |-> 0]]
    /\ UNCHANGED <<stringTrapTokensInTraps, tokens, tiles, effects, lastDamage, lastSave,
                   installVars>>
    /\ UNCHANGED <<scripts, startupScripts, startupEnabled, isGM, unflushed,
                   now, lastCall, ret, notifications, orchVars>>

----------------------------------------------------------------------------
(* The initial state: the defaults the settings are registered with *)

EmptyStore == [k \in {} |-> k]

Call(op, name, arg) == [op |-> op, name |-> name, arg |-> arg]

Bool(b) == IF b THEN "true" ELSE "false"

\* The client of the game master, who alone is offered the Script Vault window.
Init ==
    /\ scripts = EmptyStore
    /\ startupScripts = <<>>
    /\ startupEnabled = TRUE
    /\ isGM = TRUE
    /\ now = 1
    /\ lastCall = Call("", "", "")
    /\ ret = "undefined"
    /\ notifications = <<>>
    /\ startupPc = "idle"
    /\ startupList = <<>>
    /\ startupIdx = 0
    /\ successCount = 0
    /\ failCount = 0
    /\ executing = {}
    /\ executed = <<>>
    /\ unflushed = {}
    /\ InitScene

----------------------------------------------------------------------------
(* The Script Store and Startup Registry methods. A call runs from its first
   line to its return; t, t1, t2 are the call's readings of Date.now(). *)

initialize(t) ==
    /\ scripts' = ensureDefaultStore(scripts, t)
    /\ startupScripts' = ensureDefaultList(scripts, startupScripts)
    /\ now' = IF HasScript(scripts, DefaultName) THEN now ELSE t
    /\ unflushed' = unflushed \cup
                    ensureDefaultUnawaited(scripts, startupScripts)
    /\ lastCall' = Call("initialize", "", "")
    /\ ret' = "undefined"
    /\ notifications' = <<>>
    /\ UNCHANGED <<startupEnabled, isGM, orchVars>>
    /\ UNCHANGED trapVars

saveScript(name, code, description, isStartup, t1, t2) ==
    /\ scripts' = saveScriptStore(scripts, name, code, description, isStartup,
                                  t1, t2)
    /\ startupScripts' = saveScriptList(startupScripts, name, isStartup)
    /\ now' = t2
    /\ lastCall' = Call("saveScript", name, code)
    /\ ret' = "record"
    /\ notifications' = <<>>
    /\ UNCHANGED <<startupEnabled, isGM, unflushed, orchVars>>
    /\ UNCHANGED trapVars

deleteScript(name) ==
    /\ scripts' = deleteScriptStore(scripts, name)
    /\ startupScripts' = disableStartupList(startupScripts, name)
    /\ lastCall' = Call("deleteScript", name, "")
    /\ ret' = "undefined"
    /\ notifications' = <<>>
    /\ UNCHANGED <<startupEnabled, isGM, unflushed, now, orchVars>>
    /\ UNCHANGED trapVars

renameScript(oldName, newName) ==
    /\ scripts' = renameScriptStore(scripts, oldName, newName)
    /\ startupScripts' = renameScriptList(scripts, startupScripts, oldName, newName)
    /\ lastCall' = Call("renameScript", oldName, newName)
    /\ ret' = "undefined"
    /\ notifications' = <<>>
    /\ UNCHANGED <<startupEnabled, isGM, unflushed, now, orchVars>>
    /\ UNCHANGED trapVars

enableStartup(name) ==
    /\ startupScripts' = enableStartupList(startupScripts, name)
    /\ lastCall' = Call("enableStartup", name, "")
    /\ ret' = "undefined"
    /\ notifications' = <<>>
    /\ UNCHANGED <<scripts, startupEnabled, isGM,
                   unflushed, now, orchVars>>
    /\ UNCHANGED trapVars

disableStartup(name) ==
    /\ startupScripts' = disableStartupList(startupScripts, name)
    /\ lastCall' = Call("disableStartup", name, "")
    /\ ret' = "undefined"
    /\ notifications' = <<>>
    /\ UNCHANGED <<scripts, startupEnabled, isGM,
                   unflushed, now, orchVars>>
    /\ UNCHANGED trapVars

toggleStartup(name) ==
    /\ startupScripts' = toggleStartupList(startupScripts, name)
    /\ lastCall' = Call("toggleStartup", name, "")
    /\ ret' = Bool(toggleStartupResult(startupScripts, name))
    /\ notifications' = <<>>
    /\ UNCHANGED <<scripts, startupEnabled, isGM,
                   unflushed, now, orchVars>>
    /\ UNCHANGED trapVars

importScripts(data) ==
    /\ scripts' = importScriptsStore(scripts, data)
    /\ startupScripts' = importScriptsList(startupScripts, data)
    /\ lastCall' = Call("importScripts", "", data)
    /\ ret' = Bool(~importThrows(data))
    /\ notifications' = IF importThrows(data) THEN <<"error">> ELSE <<"info">>
    /\ UNCHANGED <<startupEnabled, isGM, unflushed, now, orchVars>>
    /\ UNCHANGED trapVars

\* The world setting 'startupEnabled' (config: true) is set in the host's
\* settings form.
setStartupEnabled(b) ==
    /\ startupEnabled' = b
    /\ lastCall' = Call("setStartupEnabled", "", "")
    /\ ret' = "undefined"
    /\ notifications' = <<>>
    /\ UNCHANGED <<scripts, startupScripts, isGM, unflushed, now, orchVars>>
    /\ UNCHANGED trapVars

\* The host resolves the promise of an unawaited game.settings.set: the write
\* has reached the world's settings.
settingsSetResolved(w) ==
    /\ w \in unflushed
    /\ unflushed' = unflushed \ {w}
    /\ lastCall' = Call("settingsSetResolved", w.key, "")
    /\ UNCHANGED <<scripts, startupScripts, startupEnabled, isGM, now, ret,
                   notifications, orchVars>>
    /\ UNCHANGED trapVars

----------------------------------------------------------------------------
(* The Script Runner and the Startup Orchestrator *)

\* run(name), called on its own (ScriptVaultUI._runCurrentScript).
run(name) ==
    /\ lastCall' = Call("run", name, "")
    /\ ret' = runResult(scripts, name)
    /\ notifications' = runNotifications(scripts, name)
    /\ UNCHANGED <<scripts, startupScripts, startupEnabled, isGM,
                   unflushed, now, orchVars>>
    /\ IF HasScript(scripts, name) THEN executeScript(name)
       ELSE UNCHANGED installVars
    /\ UNCHANGED sceneVars

\* A runStartupScripts without the test of the startupEnabled setting.
runStartupScriptsBeginUngated ==
    /\ startupPc = "idle"
    /\ lastCall' = Call("runStartupScripts", "", "")
    /\ notifications' = <<>>
    /\ successCount' = 0
    /\ failCount' = 0
    /\ executed' = <<>>
    /\ executing' = {}
    /\ IF isGM /\ Len(startupScripts) # 0
       THEN /\ startupPc' = "loop"
            /\ startupList' = startupScripts
            /\ startupIdx' = 1
            /\ ret' = "pending"
       ELSE /\ startupPc' = "idle"
            /\ startupList' = <<>>
            /\ startupIdx' = 0
            /\ ret' = "undefined"
    /\ UNCHANGED <<scripts, startupScripts, startupEnabled, isGM,
                   unflushed, now>>
    /\ UNCHANGED trapVars

\* runStartupScripts, lines 209-228: the two gates, the empty registry, the
\* counters.
runStartupScriptsBegin ==
    /\ startupPc = "idle"
    /\ lastCall' = Call("runStartupScripts", "", "")
    /\ notifications' = <<>>
    /\ successCount' = 0
    /\ failCount' = 0
    /\ executed' = <<>>
    /\ executing' = {}
    /\ IF isGM /\ startupEnabled /\ Len(startupScripts) # 0
       THEN /\ startupPc' = "loop"
            /\ startupList' = startupScripts
            /\ startupIdx' = 1
            /\ ret' = "pending"
       ELSE /\ startupPc' = "idle"
            /\ startupList' = <<>>
            /\ startupIdx' = 0
            /\ ret' = "undefined"
    /\ UNCHANGED <<scripts, startupScripts, startupEnabled, isGM,
                   unflushed, now>>
    /\ UNCHANGED trapVars

\* A loop that calls run(name) without awaiting it.
runStartupScriptsEntryNoAwait ==
    /\ startupPc = "loop"
    /\ startupIdx <= Len(startupList)
    /\ LET name == startupList[startupIdx]
       IN IF HasScript(scripts, name)
          THEN /\ executing' = executing \cup {name}
               /\ executed' = Append(executed, name)
               /\ UNCHANGED failCount
          ELSE /\ failCount' = failCount + 1
               /\ UNCHANGED <<executing, executed>>
    /\ startupIdx' = startupIdx + 1
    /\ UNCHANGED <<scripts, startupScripts, startupEnabled, isGM,
                   unflushed, now, lastCall,
                   ret, notifications, startupList, successCount, startupPc>>
    /\ UNCHANGED trapVars

\* Lines 230-239, up to the await: the entry's record is looked up; without one
\* the entry is a failure, with one run(name) is called and starts the body.
runStartupScriptsEntry ==
    /\ startupPc = "loop"
    /\ startupIdx <= Len(startupList)
    /\ LET name == startupList[startupIdx]
       IN IF HasScript(scripts, name)
          THEN /\ startupPc' = "running"
               /\ executing' = executing \cup {name}
               /\ executed' = Append(executed, name)
               /\ executeScript(name)
               /\ UNCHANGED <<failCount, startupIdx>>
          ELSE /\ failCount' = failCount + 1
               /\ startupIdx' = startupIdx + 1
               /\ UNCHANGED <<startupPc, executing, executed, installVars>>
    /\ UNCHANGED <<scripts, startupScripts, startupEnabled, isGM,
                   unflushed, now, lastCall,
                   ret, notifications, startupList, successCount>>
    /\ UNCHANGED sceneVars

\* Lines 233-235, after the await: run(name) has returned or rejected. A
\* rejection is not caught by runStartupScripts, which rejects in turn.
runStartupScriptsAwaited ==
    /\ startupPc = "running"
    /\ LET name == startupList[startupIdx]
           result == runResult(scripts, name)
       IN /\ executing' = executing \ {name}
          /\ notifications' = notifications \o runNotifications(scripts, name)
          /\ successCount' = IF result = "true" THEN successCount + 1
                             ELSE successCount
          /\ failCount' = IF result = "false" THEN failCount + 1 ELSE failCount
          /\ IF result = "throw"
             THEN /\ startupPc' = "idle"
                  /\ ret' = "throw"
                  /\ UNCHANGED startupIdx
             ELSE /\ startupPc' = "loop"
                  /\ startupIdx' = startupIdx + 1
                  /\ UNCHANGED ret
    /\ UNCHANGED <<scripts, startupScripts, startupEnabled, isGM,
                   unflushed, now, lastCall,
                   startupList, executed>>
    /\ UNCHANGED trapVars

\* Lines 242-248: the two summary notifications.
runStartupScriptsSummary ==
    /\ startupPc = "loop"
    /\ startupIdx > Len(startupList)
    /\ startupPc' = "idle"
    /\ ret' = "undefined"
    /\ notifications' = notifications
                        \o (IF successCount > 0 THEN <<"info-loaded">> ELSE <<>>)
                        \o (IF failCount > 0 THEN <<"warn-failed">> ELSE <<>>)
    /\ UNCHANGED <<scripts, startupScripts, startupEnabled, isGM,
                   unflushed, now, lastCall,
                   startupList, startupIdx, successCount, failCount, executing,
                   executed>>
    /\ UNCHANGED trapVars

----------------------------------------------------------------------------
(* The calls made, and the specifications *)

\* An imported file names at most MaxImport startup identities.
MaxImport == 1

\* renameScript can write an identity the registry already holds, after which
\* enableStartup appends the old one again: the registry is kept to MaxStartup
\* entries.
MaxStartup == 3

SeqsUpTo(S, n) == UNION {[1..k -> S] : k \in 0..n}

ImportedStore(S, startup) ==
    [k \in S |-> ImportedRecord(k, Includes(startup, k))]

ImportedNameSets == {{}} \cup {{n} : n \in Names}

ImportFiles ==
    {ImportData(FALSE, FALSE, EmptyStore, "absent", <<>>)}
    \cup {ImportData(TRUE, FALSE, EmptyStore, kind, <<>>) :
            kind \in {"absent", "malformed"}}
    \cup {ImportData(TRUE, TRUE, ImportedStore(S, <<>>), kind, <<>>) :
            S \in ImportedNameSets, kind \in {"absent", "malformed"}}
    \cup {ImportData(TRUE, FALSE, EmptyStore, "array", l) :
            l \in SeqsUpTo(Names, MaxImport)}
    \cup {ImportData(TRUE, TRUE, ImportedStore(S, l), "array", l) :
            S \in ImportedNameSets, l \in SeqsUpTo(Names, MaxImport)}

\* The readings Date.now() can give after a reading of t.
Readings(t) == {u \in t..MaxTime : u <= t + 1}

\* The Script Store and the Startup Registry, called one call after the other
\* within one reading of the clock. A call is made once the writes of the calls
\* before it have reached the settings: the awaited ones have when the call
\* returns, those initialize leaves unawaited when the host resolves them.
WithinMaxStartup == Len(startupScripts') <= MaxStartup

Settled == unflushed = {}

Next ==
    \/ Settled /\ initialize(now) /\ WithinMaxStartup
    \/ \E name \in Names, code \in {CodeCompletes}, isStartup \in BOOLEAN :
         Settled /\ saveScript(name, code, "", isStartup, now, now)
                 /\ WithinMaxStartup
    \/ \E name \in Names : Settled /\ deleteScript(name)
    \/ \E oldName \in Names, newName \in Names :
         Settled /\ renameScript(oldName, newName)
    \/ \E name \in Names : Settled /\ enableStartup(name) /\ WithinMaxStartup
    \/ \E name \in Names : Settled /\ disableStartup(name)
    \/ \E name \in Names : Settled /\ toggleStartup(name) /\ WithinMaxStartup
    \/ \E data \in ImportFiles :
         Settled /\ importScripts(data) /\ WithinMaxStartup
    \/ \E w \in unflushed : settingsSetResolved(w)

Spec == Init /\ [][Next]_vars

\* The Script Store over time: two identities, every reading of the clock.
TimeNames == {DefaultName, "A"}

NextTime ==
    \/ \E t \in Readings(now) : Settled /\ initialize(t)
    \/ \E name \in TimeNames, code \in {CodeCompletes, CodeThrowsError},
          isStartup \in BOOLEAN, t1 \in Readings(now) :
         \E t2 \in Readings(t1) :
           Settled /\ saveScript(name, code, "", isStartup, t1, t2)
    \/ \E name \in TimeNames : Settled /\ deleteScript(name)
    \/ \E w \in unflushed : settingsSetResolved(w)

SpecTime == Init /\ [][NextTime]_vars

\* The Runner and the Orchestrator: scripts of every kind are saved, enabled and
\* deleted, then run one by one or by runStartupScripts. Each call is awaited
\* before the next is made.
RunNames == {"A", "B"}

Idle == startupPc = "idle"

NextRun ==
    \/ \E name \in RunNames, code \in Codes \ {TrapCode}, isStartup \in BOOLEAN :
         Idle /\ saveScript(name, code, "", isStartup, now, now)
    \/ \E name \in RunNames : Idle /\ deleteScript(name)
    \/ \E name \in RunNames : Idle /\ enableStartup(name)
    \/ \E b \in BOOLEAN : Idle /\ setStartupEnabled(b)
    \/ \E name \in RunNames : Idle /\ run(name)
    \/ runStartupScriptsBegin
    \/ runStartupScriptsEntry
    \/ runStartupScriptsAwaited
    \/ runStartupScriptsSummary

\* runStartupScripts is called on every client, the game master's or not.
InitRun ==
    /\ scripts = EmptyStore
    /\ startupScripts = <<>>
    /\ startupEnabled = TRUE
    /\ isGM \in BOOLEAN
    /\ now = 1
    /\ lastCall = Call("", "", "")
    /\ ret = "undefined"
    /\ notifications = <<>>
    /\ startupPc = "idle"
    /\ startupList = <<>>
    /\ startupIdx = 0
    /\ successCount = 0
    /\ failCount = 0
    /\ executing = {}
    /\ executed = <<>>
    /\ unflushed = {}
    /\ InitScene

SpecRun == InitRun /\ [][NextRun]_vars

\* The trap engine: the bundled script is seeded and is run by hand, at any
\* time; tokens move over the cells (0..MaxX) x (0..MaxY), combat turns come,
\* and the listener calls that are awaiting resume in any order.
MaxX == 1

MaxY == 1

NextTrap ==
    \/ run(DefaultName)
    \/ \E tokenId \in TokenIds, x \in 0..MaxX, y \in 0..MaxY :
         updateToken(tokenId, x, y)
    \/ \E h \in 1..MaxHandlers, total \in 1..MaxRoll : rolled(h, total)
    \/ \E h \in 1..MaxHandlers : damaged(h)
    \/ \E h \in 1..MaxHandlers : created(h)
    \/ \E h \in 1..MaxHandlers : deactivated(h)
    \/ \E h \in 1..MaxHandlers : deleted(h)

\* The world as initialize leaves it on a first load, on either kind of client.
InitTrap ==
    /\ scripts = ensureDefaultStore(EmptyStore, 1)
    /\ startupScripts = ensureDefaultList(EmptyStore, <<>>)
    /\ startupEnabled = TRUE
    /\ isGM \in BOOLEAN
    /\ now = 1
    /\ lastCall = Call("initialize", "", "")
    /\ ret = "undefined"
    /\ notifications = <<>>
    /\ startupPc = "idle"
    /\ startupList = <<>>
    /\ startupIdx = 0
    /\ successCount = 0
    /\ failCount = 0
    /\ executing = {}
    /\ executed = <<>>
    /\ unflushed = {}
    /\ InitScene

SpecTrap == InitTrap /\ [][NextTrap]_vars

\* Installing the trap engine: the bundled script, and a copy of it or another
\* script saved as "A", are run by hand and by runStartupScripts, in any order
\* and any number of times.
InstallNames == {DefaultName, "A"}

NextInstall ==
    \/ \E code \in {TrapCode, CodeCompletes, CodeThrowsError},
          isStartup \in BOOLEAN :
         Idle /\ saveScript("A", code, "", isStartup, now, now)
    \/ \E name \in InstallNames : Idle /\ disableStartup(name)
    \/ \E b \in BOOLEAN : Idle /\ setStartupEnabled(b)
    \/ \E name \in InstallNames : Idle /\ run(name)
    \/ runStartupScriptsBegin
    \/ runStartupScriptsEntry
    \/ runStartupScriptsAwaited
    \/ runStartupScriptsSummary

SpecInstall == InitTrap /\ [][NextInstall]_vars

\* Combat over a damage-over-time trap: the scene has the trap k2 alone; tokens
\* move onto it and off it, combat turns come, started or not, and the listener
\* calls that are awaiting resume in any order.
CombatTiles == <<SceneTiles[2]>>

NextCombat ==
    \/ run(DefaultName)
    \/ \E tokenId \in TokenIds, x \in 0..MaxX, y \in 0..MaxY :
         updateToken(tokenId, x, y)
    \/ \E started \in BOOLEAN, tokenId \in TokenIds :
         combatTurn(started, tokenId)
    \/ \E h \in 1..MaxHandlers, total \in 1..MaxRoll : rolled(h, total)
    \/ \E h \in 1..MaxHandlers : damaged(h)
    \/ \E h \in 1..MaxHandlers : created(h)
    \/ \E h \in 1..MaxHandlers : deleted(h)

InitCombat ==
    /\ scripts = ensureDefaultStore(EmptyStore, 1)
    /\ startupScripts = ensureDefaultList(EmptyStore, <<>>)
    /\ startupEnabled = TRUE
    /\ isGM \in BOOLEAN
    /\ now = 1
    /\ lastCall = Call("initialize", "", "")
    /\ ret = "undefined"
    /\ notifications = <<>>
    /\ startupPc = "idle"
    /\ startupList = <<>>
    /\ startupIdx = 0
    /\ successCount = 0
    /\ failCount = 0
    /\ executing = {}
    /\ executed = <<>>
    /\ unflushed = {}
    /\ stringTrapSystemLoaded = FALSE
    /\ hooks = NoHooks
    /\ stringTrapTokensInTraps = [key \in TileIds \X TokenIds |-> FALSE]
    /\ tokens = SceneTokens
    /\ tiles = CombatTiles
    /\ effects = [a \in ActorIds |-> <<>>]
    /\ handlers = [h \in 1..MaxHandlers |-> NoHandler]
    /\ lastDamage = NoDamage
    /\ lastSave = NoSave
    /\ combat = [started |-> FALSE, tokenId |-> "t1"]

SpecCombat == InitCombat /\ [][NextCombat]_vars

\* The game master's client after initialize, the bundled script not executed,
\* on a scene with these token and tile documents.
InitEngine(tokenDocs, tileDocs) ==
    /\ scripts = ensureDefaultStore(EmptyStore, 1)
    /\ startupScripts = ensureDefaultList(EmptyStore, <<>>)
    /\ startupEnabled = TRUE
    /\ isGM = TRUE
    /\ now = 1
    /\ lastCall = Call("initialize", "", "")
    /\ ret = "undefined"
    /\ notifications = <<>>
    /\ startupPc = "idle"
    /\ startupList = <<>>
    /\ startupIdx = 0
    /\ successCount = 0
    /\ failCount = 0
    /\ executing = {}
    /\ executed = <<>>
    /\ unflushed = {}
    /\ stringTrapSystemLoaded = FALSE
    /\ hooks = NoHooks
    /\ stringTrapTokensInTraps = [key \in TileIds \X TokenIds |-> FALSE]
    /\ tokens = tokenDocs
    /\ tiles = tileDocs
    /\ effects = [a \in ActorIds |-> <<>>]
    /\ handlers = [h \in 1..MaxHandlers |-> NoHandler]
    /\ lastDamage = NoDamage
    /\ lastSave = NoSave
    /\ combat = [started |-> FALSE, tokenId |-> "t1"]

\* The explosion: one single-use trap of one cell at the origin that carries an
\* explosion size, of the type "Landmine Trap" or of another type, and two
\* tokens that move over a strip of cells to its right and below it.
MaxAreaX == 4

MaxAreaY == 1

TrapTypes == {"Landmine Trap", "Spike Trap"}

ExplosionSizes == {2, 4}

AreaTiles(type, explosionSize) ==
    <<WithExplosion(TileDocument("k1", 0, 0, GridSize, GridSize, TRUE, FALSE,
                                 "1d4"),
                    type, explosionSize)>>

AreaTokens ==
    [t \in TokenIds |-> TokenDocument(GridSize, 0, SceneTokens[t].actorId)]

NextArea ==
    \/ run(DefaultName)
    \/ \E tokenId \in TokenIds, x \in 0..MaxAreaX, y \in 0..MaxAreaY :
         updateToken(tokenId, x * GridSize, y * GridSize)
    \/ \E h \in 1..MaxHandlers, total \in 1..MaxRoll : rolled(h, total)
    \/ \E h \in 1..MaxHandlers : damaged(h)
    \/ \E h \in 1..MaxHandlers : deactivated(h)

InitArea ==
    \E type \in TrapTypes, explosionSize \in ExplosionSizes :
      InitEngine(AreaTokens, AreaTiles(type, explosionSize))

SpecArea == InitArea /\ [][NextArea]_vars

\* The saving throw: one single-use trap of one cell with the condition
\* "paralyzed", no damage formula and a configured save DC, and the two tokens
\* next to it.
MaxDC == 3

SaveTiles(saveDC) ==
    <<WithCondition(TileDocument("k1", GridSize, 0, GridSize, GridSize, TRUE,
                                 FALSE, ""),
                    "paralyzed", saveDC)>>

NextSave ==
    \/ run(DefaultName)
    \/ \E tokenId \in TokenIds, x \in 0..MaxX, y \in 0..MaxY :
         updateToken(tokenId, x, y)
    \/ \E h \in 1..MaxHandlers, total \in SaveTotals : saved(h, total)
    \/ \E h \in 1..MaxHandlers : paralyzed(h)
    \/ \E h \in 1..MaxHandlers : deactivated(h)

InitSave == \E saveDC \in 0..MaxDC : InitEngine(SceneTokens, SaveTiles(saveDC))

SpecSave == InitSave /\ [][NextSave]_vars

----------------------------------------------------------------------------
(* Claims about the Script Store and the Startup Registry *)

\* C1: in every reachable state the startup registry holds no identity more
\* than once.
C1_RegistryHasNoDuplicates == NoDuplicates(startupScripts)

\* C2: after deleteScript(name) the identity is in neither the store nor the
\* registry; when it was in neither, the call raises no error and leaves both
\* as they were.
C2_DeleteRemovesEverywhere ==
    [][lastCall'.op = "deleteScript" =>
         LET name == lastCall'.name
         IN /\ ~HasScript(scripts', name)
            /\ ~Includes(startupScripts', name)
            /\ ret' # "throw"
            /\ (~HasScript(scripts, name) /\ ~Includes(startupScripts, name)
                  => scripts' = scripts /\ startupScripts' = startupScripts)]_vars

\* C4: toggling an identity twice brings the registry back to the membership
\* it had, for that identity and every other, and each toggle returns the
\* membership that holds after it.
C4_ToggleTwiceRestores ==
    /\ \A name \in Names :
         LET once == toggleStartupList(startupScripts, name)
             twice == toggleStartupList(once, name)
         IN /\ Range(twice) = Range(startupScripts)
            /\ toggleStartupResult(startupScripts, name) = Includes(once, name)
            /\ toggleStartupResult(once, name) = Includes(twice, name)
    /\ lastCall.op = "toggleStartup"
         => ret = Bool(Includes(startupScripts, lastCall.name))

\* C3 as claimed: after saveScript, getScript returns a record with the saved
\* code; when the identity had a record, createdAt is what it was and updatedAt
\* is strictly greater than it was.
C3_UpdatedAtStrictlyIncreases ==
    [][lastCall'.op = "saveScript" =>
         LET name == lastCall'.name
         IN /\ HasScript(scripts', name)
            /\ getScript(scripts', name).code = lastCall'.arg
            /\ HasScript(scripts, name) =>
                 /\ getScript(scripts', name).createdAt
                      = getScript(scripts, name).createdAt
                 /\ getScript(scripts', name).updatedAt
                      > getScript(scripts, name).updatedAt]_vars

\* C3 as amended: after saveScript, getScript returns a record with the saved
\* code; when the identity had a record, createdAt is what it was and updatedAt
\* is not less than it was, and is greater when the clock has advanced.
C3_UpdatedAtNeverDecreases ==
    [][lastCall'.op = "saveScript" =>
         LET name == lastCall'.name
         IN /\ HasScript(scripts', name)
            /\ getScript(scripts', name).code = lastCall'.arg
            /\ HasScript(scripts, name) =>
                 /\ getScript(scripts', name).createdAt
                      = getScript(scripts, name).createdAt
                 /\ getScript(scripts', name).updatedAt
                      >= getScript(scripts, name).updatedAt
                 /\ now' > now =>
                      getScript(scripts', name).updatedAt
                        > getScript(scripts, name).updatedAt]_vars

\* The seeded record has been saved again at the last reading of the clock and
\* still carries the createdAt of the first reading.
C3_Witness ==
    /\ lastCall = Call("saveScript", DefaultName, CodeThrowsError)
    /\ HasScript(scripts, DefaultName)
    /\ getScript(scripts, DefaultName).code = CodeThrowsError
    /\ getScript(scripts, DefaultName).createdAt = 1
    /\ getScript(scripts, DefaultName).updatedAt = MaxTime

\* C5: enableStartup of an identity in the registry and disableStartup of one
\* not in it leave the sequence as it was; enableStartup of a new identity
\* appends it after the others, which keep their places; a second enableStartup
\* changes nothing.
C5_EnableDisableIdempotent ==
    [][/\ lastCall'.op = "enableStartup" =>
            /\ startupScripts'
                 = IF Includes(startupScripts, lastCall'.name)
                   THEN startupScripts
                   ELSE Append(startupScripts, lastCall'.name)
            /\ enableStartupList(startupScripts', lastCall'.name)
                 = startupScripts'
       /\ lastCall'.op = "disableStartup"
            /\ ~Includes(startupScripts, lastCall'.name) =>
            startupScripts' = startupScripts]_vars

\* enableStartup has appended a new identity after two others.
C5_Witness ==
    /\ lastCall.op = "enableStartup"
    /\ Len(startupScripts) = 3
    /\ NoDuplicates(startupScripts)
    /\ startupScripts[3] = lastCall.name

\* C6: renameScript(old, new) of an existing record leaves new where old was in
\* the registry, old nowhere in it and the other entries where they were, and
\* every entry that had a record before has one after.
C6_RenameMigratesRegistry ==
    [][lastCall'.op = "renameScript" /\ HasScript(scripts, lastCall'.name) =>
         LET oldName == lastCall'.name
             newName == lastCall'.arg
             idx == IndexOf(startupScripts, oldName)
         IN /\ Len(startupScripts') = Len(startupScripts)
            /\ Includes(startupScripts, oldName) =>
                 /\ startupScripts'[idx] = newName
                 /\ newName # oldName => ~Includes(startupScripts', oldName)
                 /\ \A i \in 1..Len(startupScripts) :
                      i # idx => startupScripts'[i] = startupScripts[i]
            /\ \A i \in 1..Len(startupScripts) :
                 HasScript(scripts, startupScripts[i])
                   => HasScript(scripts', startupScripts'[i])]_vars

\* C7: the isStartup flag of every record equals the identity's membership in
\* the registry.
C7_FlagEqualsMembership ==
    \A name \in DOMAIN scripts :
      getScript(scripts, name).isStartup = Includes(startupScripts, name)

\* C8: initialize changes neither the store nor the registry when the default
\* identity has a record, and after initialize a second seeding changes
\* nothing.
C8_SeedingIdempotent ==
    [][lastCall'.op = "initialize" =>
         /\ HasScript(scripts, DefaultName) =>
              scripts' = scripts /\ startupScripts' = startupScripts
         /\ HasScript(scripts', DefaultName)
         /\ \A t \in 1..MaxTime : ensureDefaultStore(scripts', t) = scripts'
         /\ ensureDefaultList(scripts', startupScripts') = startupScripts']_vars

\* initialize has run over a default script the user has edited and taken off
\* the registry.
C8_Witness ==
    /\ lastCall.op = "initialize"
    /\ HasScript(scripts, DefaultName)
    /\ getScript(scripts, DefaultName).code # TrapCode
    /\ ~Includes(startupScripts, DefaultName)

----------------------------------------------------------------------------
(* Claims about the Script Runner and the Startup Orchestrator *)

\* C9: run never rejects; it returns true exactly when the script has a record
\* and its body completed, and false otherwise; an error raised by compiling or
\* executing the script gives exactly one error notification, and so does an
\* identity without a record.
C9_RunContainsErrors ==
    lastCall.op = "run" =>
      LET name == lastCall.name
      IN /\ ret # "throw"
         /\ ret = "true" <=> (/\ HasScript(scripts, name)
                              /\ Execute(getScript(scripts, name).code)
                                   = "completed")
         /\ ret # "true" => ret = "false" /\ notifications = <<"error">>
         /\ ret = "true" => notifications = <<>>

\* C9, second half: run leaves the store and the registry as they were.
C9_RunLeavesStoreAlone ==
    [][lastCall'.op = "run" =>
         scripts' = scripts /\ startupScripts' = startupScripts]_vars

\* C10: when the user is not the game master or startupEnabled is false,
\* runStartupScripts returns at once: it hands no script to run, none is
\* executing, and it emits no notification.
C10_GatesBlockStartup ==
    lastCall.op = "runStartupScripts" /\ (~isGM \/ ~startupEnabled) =>
      /\ startupPc = "idle"
      /\ ret = "undefined"
      /\ executed = <<>>
      /\ executing = {}
      /\ successCount = 0
      /\ failCount = 0
      /\ notifications = <<>>

\* The game master's runStartupScripts has returned with startupEnabled false
\* and a registry of two entries, one with a record that would complete.
C10_Witness ==
    /\ lastCall.op = "runStartupScripts"
    /\ isGM
    /\ ~startupEnabled
    /\ Len(startupScripts) = 2
    /\ \E name \in Range(startupScripts) :
         /\ HasScript(scripts, name)
         /\ Execute(getScript(scripts, name).code) = "completed"
    /\ startupPc = "idle"

Count(s, x) == Cardinality({i \in 1..Len(s) : s[i] = x})

\* C11: when both gates pass, a runStartupScripts that has ended has counted
\* every registry entry once, as a success when its run succeeded and as a
\* failure otherwise, and has emitted one success summary iff it counted a
\* success and one failure summary iff it counted a failure.
C11_EveryEntryCounted ==
    lastCall.op = "runStartupScripts" /\ Idle /\ isGM /\ startupEnabled =>
      /\ ret = "undefined"
      /\ successCount + failCount = Len(startupScripts)
      /\ successCount
           = Cardinality({i \in 1..Len(startupScripts) :
                            runResult(scripts, startupScripts[i]) = "true"})
      /\ Count(notifications, "info-loaded") = IF successCount > 0 THEN 1 ELSE 0
      /\ Count(notifications, "warn-failed") = IF failCount > 0 THEN 1 ELSE 0

\* C12: at most one startup script is executing; the one executing is the entry
\* the loop is at, and the scripts handed to run so far are the entries before
\* it that have a record, in registry order.
C12_StartupRunsSequential ==
    /\ Cardinality(executing) <= 1
    /\ executing # {} =>
         /\ startupPc = "running"
         /\ executing = {startupList[startupIdx]}
    /\ startupPc \in {"loop", "running"} =>
         LET WithRecord(name) == HasScript(scripts, name)
             upTo == IF startupPc = "running" THEN startupIdx
                     ELSE startupIdx - 1
         IN executed = SelectSeq(SubSeq(startupList, 1, upTo), WithRecord)

\* The second entry's script is executing after the first entry's run ended.
C12_Witness ==
    /\ startupPc = "running"
    /\ startupIdx = 2
    /\ Len(executed) = 2
    /\ executing = {executed[2]}
    /\ executed[1] # executed[2]
    /\ successCount + failCount = 1

\* The identities data.scripts holds, and the identities data.startupScripts
\* lists, of a payload; none when the field is not there.
PayloadNames(data) == IF data.hasScripts THEN DOMAIN data.scripts ELSE {}

PayloadStartup(data) ==
    IF data.startupKind = "array" THEN data.startupScripts ELSE <<>>

C14_FailedImportChangesNothing ==
    [][lastCall'.op = "importScripts" /\ ret' = "false" =>
         scripts' = scripts /\ startupScripts' = startupScripts]_vars

----------------------------------------------------------------------------
(* Claims about the trap engine *)

\* C15: however often the bundled script has been executed, by run or by
\* runStartupScripts, each of the two listeners is registered once when the
\* script has been executed and not at all before; a run of the bundled script
\* that returns true, and a runStartupScripts that has handed it to run, leave
\* the engine installed.
C15_ListenersRegisteredOnce ==
    /\ hooks.updateToken = (IF stringTrapSystemLoaded THEN 1 ELSE 0)
    /\ hooks.combatTurn = (IF stringTrapSystemLoaded THEN 1 ELSE 0)
    /\ lastCall.op = "run" /\ ret = "true"
         /\ getScript(scripts, lastCall.name).code = TrapCode
         => stringTrapSystemLoaded
    /\ ~Idle =>
         \A i \in 1..Len(executed) :
           getScript(scripts, executed[i]).code = TrapCode
             => stringTrapSystemLoaded

\* The bundled script has been executed by runStartupScripts, which has ended,
\* and then again by run.
C15_Witness ==
    /\ lastCall = Call("run", DefaultName, "")
    /\ ret = "true"
    /\ getScript(scripts, DefaultName).code = TrapCode
    /\ Includes(executed, DefaultName)
    /\ Idle
    /\ hooks = [updateToken |-> 1, combatTurn |-> 1]

\* The listener call of slot h comes, in this step, to trigger the trap with
\* this id: it starts on the damage roll of an entry into it.
Triggers(h, id) ==
    /\ handlers'[h].hook = "updateToken"
    /\ handlers'[h].pc = "rolling"
    /\ tiles[Head(handlers'[h].traps)].id = id
    /\ handlers[h].pc = "done" \/ handlers'[h].traps # handlers[h].traps

\* The listener call of slot h goes, in this step, past the trap of index i
\* without awaiting anything for it.
Passes(h, i) ==
    /\ handlers[h].hook = "updateToken"
    /\ handlers'[h] # handlers[h]
    /\ i \in Range(Tail(handlers[h].traps))
    /\ i \notin Range(handlers'[h].traps)

\* The token that moves in this step, and the listener call started for it.
Moves(tokenId) == tokens'[tokenId] # tokens[tokenId]

Started(h) == handlers[h].pc = "done" /\ handlers'[h].pc # "done"

\* C16: with the engine installed on the game master's client, an active trap
\* with a damage formula is triggered by a move exactly when the move takes the
\* token's rectangle from not overlapping to overlapping the trap's (a move that
\* keeps it overlapping, or outside, triggers nothing), and a trigger applies
\* damage once, to the actor of the token that moved.
C16_EntryTriggersOneDamage ==
    [][/\ \A h \in 1..MaxHandlers, i \in 1..Len(tiles) :
            Triggers(h, tiles[i].id) => tiles[i].id \in handlers'[h].entered
       /\ \A tokenId \in TokenIds, i \in 1..Len(tiles) :
            /\ Moves(tokenId)
            /\ hooks.updateToken = 1 /\ isGM
            /\ tiles[i].isActive /\ tiles[i].damage # ""
            /\ tiles[i].id \in Entered(tokenId, tokens'[tokenId].x,
                                       tokens'[tokenId].y)
            => \E h \in 1..MaxHandlers :
                 /\ Started(h)
                 /\ handlers'[h].tokenId = tokenId
                 /\ i \in Range(handlers'[h].traps)
                 /\ Head(handlers'[h].traps) = i => Triggers(h, tiles[i].id)
       /\ \A h \in 1..MaxHandlers, i \in 1..Len(tiles) :
            /\ tiles[i].id \in handlers[h].entered /\ tiles[i].damage # ""
            /\ handlers[h].hook = "updateToken"
            => /\ ~Passes(h, i)
               /\ handlers'[h] # handlers[h] /\ handlers'[h].pc # "done"
                    /\ Head(handlers'[h].traps) = i
                    /\ handlers[h].traps # handlers'[h].traps
                    => Triggers(h, tiles[i].id)
       /\ \A h \in 1..MaxHandlers :
            handlers[h].hook = "updateToken" /\ handlers[h].pc = "rolling"
              /\ handlers'[h] # handlers[h]
            => /\ handlers'[h].pc = "damaging"
               /\ handlers'[h].traps = handlers[h].traps
               /\ lastDamage'.actorId = tokens[handlers[h].tokenId].actorId
       /\ \A h \in 1..MaxHandlers :
            handlers[h].hook = "updateToken" /\ handlers[h].pc # "rolling"
              /\ handlers'[h].pc = "rolling"
            => handlers'[h].traps # handlers[h].traps
       /\ lastDamage' # lastDamage =>
            \E h \in 1..MaxHandlers :
              handlers[h].pc = "rolling" /\ handlers'[h].pc = "damaging"]_vars

\* The listener call of slot h is awaiting within the loop body of the trap of
\* index i, which it has triggered.
AwaitsAt(h, i) ==
    /\ handlers[h].hook = "updateToken"
    /\ handlers[h].pc \in {"rolling", "damaging", "creating", "deactivating"}
    /\ Head(handlers[h].traps) = i

\* C17: a trap that is not damage-over-time is triggered only while active and
\* never once it has been triggered, and is not active when the listener call
\* that triggered it goes on; a damage-over-time trap stays active and is
\* triggered by every move that takes a token's rectangle into it.
C17_SingleUseUnlessDot ==
    [][/\ \A h \in 1..MaxHandlers, i \in 1..Len(tiles) :
            ~tiles[i].isDot /\ Triggers(h, tiles[i].id) =>
              /\ tiles[i].isActive
              /\ \A g \in 1..MaxHandlers : ~AwaitsAt(g, i)
       /\ \A h \in 1..MaxHandlers, i \in 1..Len(tiles) :
            ~tiles[i].isDot /\ AwaitsAt(h, i) /\ ~AwaitsAt(h, i)' =>
              ~tiles'[i].isActive
       /\ \A i \in 1..Len(tiles) :
            /\ ~tiles[i].isActive => ~tiles'[i].isActive
            /\ tiles[i].isDot => tiles'[i].isActive
       /\ \A tokenId \in TokenIds, i \in 1..Len(tiles) :
            /\ Moves(tokenId)
            /\ hooks.updateToken = 1 /\ isGM
            /\ tiles[i].isDot
            /\ tiles[i].id \in Entered(tokenId, tokens'[tokenId].x,
                                       tokens'[tokenId].y)
            => \E h \in 1..MaxHandlers :
                 /\ Started(h)
                 /\ handlers'[h].tokenId = tokenId
                 /\ i \in Range(handlers'[h].traps)
       /\ \A h \in 1..MaxHandlers, i \in 1..Len(tiles) :
            /\ tiles[i].isDot /\ tiles[i].id \in handlers[h].entered
            /\ handlers[h].hook = "updateToken"
            => ~Passes(h, i)]_vars

\* The number of effects of an actor that are tagged with a trap's id.
DotEffectCount(actorEffects, id) ==
    Cardinality({i \in 1..Len(actorEffects) : actorEffects[i].dotTileId = id})

\* C18: no actor carries more than one effect tagged with the same trap.
C18_DotEffectsNeverStack ==
    \A actorId \in ActorIds, id \in TileIds :
      DotEffectCount(effects[actorId], id) <= 1

\* No "updateToken" listener call for the token is awaiting.
Handled(tokenId) ==
    \A h \in 1..MaxHandlers :
      ~(handlers[h].hook = "updateToken" /\ handlers[h].tokenId = tokenId)

\* C19: once the listener calls for a token's moves have returned, the token's
\* actor carries no effect tagged with a trap the token does not overlap; and
\* no effect is ever tagged with a trap that is not damage-over-time.
C19_ExitRemovesDotEffect ==
    /\ \A tokenId \in TokenIds, i \in 1..Len(tiles) :
         Handled(tokenId) /\ ~Overlaps(tokens[tokenId], tiles[i])
           => ~HasDotEffect(effects[tokens[tokenId].actorId], tiles[i].id)
    /\ \A actorId \in ActorIds, i \in 1..Len(tiles) :
         ~tiles[i].isDot => ~HasDotEffect(effects[actorId], tiles[i].id)

\* C20: a "combatTurn" listener call goes to work only for a started combat on
\* the game master's client, on the damage-over-time effects the combatant's
\* actor carries at that turn; it rolls each effect's formula anew (every total
\* of the formula can come out, whatever was applied before), applies each
\* roll once to that actor and then goes to the next effect; and nothing else
\* applies damage for a turn.
C20_DotDamageEachTurn ==
    [][/\ \A h \in 1..MaxHandlers :
            Started(h) /\ handlers'[h].hook = "combatTurn" =>
              /\ combat'.started /\ isGM
              /\ handlers'[h].tokenId = combat'.tokenId
              /\ handlers'[h].pc = "rolling"
              /\ handlers'[h].traps
                   = DotEffects(effects[tokens[combat'.tokenId].actorId])
       /\ combat' # combat /\ combat'.started /\ isGM /\ hooks.combatTurn = 1
            /\ DotEffects(effects[tokens[combat'.tokenId].actorId]) # <<>>
            /\ (\E h \in 1..MaxHandlers : handlers[h].pc = "done")
            => \E h \in 1..MaxHandlers :
                 Started(h) /\ handlers'[h].hook = "combatTurn"
       /\ \A h \in 1..MaxHandlers :
            handlers[h].hook = "combatTurn" /\ handlers[h].pc = "rolling" =>
              /\ \A total \in RollTotals(Head(handlers[h].traps).damage) :
                   ENABLED rolled(h, total)
              /\ handlers'[h] # handlers[h] =>
                   /\ handlers'[h] = [handlers[h] EXCEPT !.pc = "damaging"]
                   /\ lastDamage'.actorId = tokens[handlers[h].tokenId].actorId
                   /\ lastDamage'.total
                        \in RollTotals(Head(handlers[h].traps).damage)
       /\ \A h \in 1..MaxHandlers :
            handlers[h].hook = "combatTurn" /\ handlers[h].pc = "damaging"
              /\ handlers'[h] # handlers[h] =>
              /\ lastDamage' = lastDamage
              /\ handlers'[h]
                   = IF Len(handlers[h].traps) = 1 THEN NoHandler
                     ELSE [handlers[h] EXCEPT !.pc = "rolling",
                                              !.traps = Tail(@)]
       /\ lastDamage' # lastDamage =>
            \E h \in 1..MaxHandlers :
              handlers[h].pc = "rolling" /\ handlers'[h].pc = "damaging"]_vars

\* A started combat is at the turn of a token whose actor has just taken the
\* highest total from its effect, while the other token's actor carries an
\* effect too.
C20_Witness ==
    /\ combat.started
    /\ \E h \in 1..MaxHandlers :
         /\ handlers[h].hook = "combatTurn"
         /\ handlers[h].pc = "damaging"
         /\ handlers[h].tokenId = combat.tokenId
    /\ lastDamage = [actorId |-> tokens[combat.tokenId].actorId,
                     total |-> MaxRoll]
    /\ \A actorId \in ActorIds : DotEffects(effects[actorId]) # <<>>

----------------------------------------------------------------------------
(* Renaming and the number of records *)

\* C25: renameScript(old, new) leaves the Script Store with as many records as
\* before and every other record as it was (none deleted, none overwritten),
\* also when new equals old and when new is the identity of another record;
\* when old has no record it changes neither the store nor the registry.
C25_RenamePreservesRecords ==
    [][lastCall'.op = "renameScript" =>
         LET oldName == lastCall'.name
             newName == lastCall'.arg
         IN /\ Cardinality(DOMAIN scripts') = Cardinality(DOMAIN scripts)
            /\ \A k \in DOMAIN scripts \ {oldName} :
                 HasScript(scripts', k) /\ scripts'[k] = scripts[k]
            /\ ~HasScript(scripts, oldName) =>
                 scripts' = scripts /\ startupScripts' = startupScripts]_vars

----------------------------------------------------------------------------
(* Movement events and the listener calls handling them *)

\* The updateToken listener call of slot h is part-way through: it has started
\* and is at one of its awaits.
PartWay(h) ==
    /\ handlers[h].hook = "updateToken"
    /\ handlers[h].pc # "done"

\* C23: a movement event is handled to completion, with all its awaited steps,
\* before the listener call for the next movement event starts: in no state are
\* two updateToken listener calls both part-way through, and no call is
\* awaiting within a single-use trap's loop body while another call has that
\* trap, still active, to go through.
C23_MovesHandledToCompletion ==
    \A g \in 1..MaxHandlers, h \in 1..MaxHandlers :
      g # h =>
        /\ ~(PartWay(g) /\ PartWay(h))
        /\ \A i \in 1..Len(tiles) :
             AwaitsAt(g, i) /\ ~tiles[i].isDot /\ tiles[i].isActive
               => ~(PartWay(h) /\ Head(handlers[h].traps) = i)

----------------------------------------------------------------------------
(* Writes and returns *)

\* C24: when a method that changes the Script Store or the Startup Registry
\* has returned, every game.settings.set it issued has resolved: in no state
\* between two calls is a write of a returned method still outstanding, so a
\* read made after the return finds the whole update.
C24_WritesFlushedOnReturn ==
    \A w \in unflushed :
      w.op \notin {"initialize", "saveScript", "deleteScript", "renameScript",
                   "enableStartup", "disableStartup", "importScripts"}

----------------------------------------------------------------------------
(* The explosion of an area trap *)

\* The center of the token's rectangle lies at a Euclidean distance of at most
\* R from the center of the tile's, R being the explosion size in cells times
\* the grid size times 3/4; both sides are squared and taken times sixteen.
WithinRadius(tokenDoc, tile) ==
    4 * (Sq((2 * tokenDoc.x + tokenDoc.width * GridSize)
              - (2 * tile.x + tile.width))
         + Sq((2 * tokenDoc.y + tokenDoc.height * GridSize)
                - (2 * tile.y + tile.height)))
      <= Sq(3 * tile.explosionSize * GridSize)

\* A trap flagged by an explosion radius.
HasExplosionSize(tile) == tile.explosionSize # 0

\* What a listener call does for the damage of a triggered trap that is an
\* area trap (by its explosion size alone, or by its type and explosion size
\* when byType is set): when its roll is evaluated it takes the tokens
\* within the radius as they then stand, each once, and damages the first by
\* the rolled total; every time applyDamage returns it damages the next of
\* them by that same total, and nobody once all of them have been damaged.
ExplosionDamages(byType) ==
    \A h \in 1..MaxHandlers :
      /\ handlers[h].hook = "updateToken"
      /\ handlers'[h] # handlers[h]
      /\ handlers[h].pc \in {"rolling", "damaging"}
      /\ IF byType THEN isLandmine(tiles[Head(handlers[h].traps)])
         ELSE HasExplosionSize(tiles[Head(handlers[h].traps)])
      => LET tile == tiles[Head(handlers[h].traps)]
             inR == {t \in TokenIds : WithinRadius(tokens[t], tile)}
             me == handlers[h]
             next == handlers'[h]
         IN IF me.pc = "rolling"
            THEN IF inR = {}
                 THEN lastDamage' = lastDamage /\ next.pc # "damaging"
                 ELSE /\ next.pc = "damaging"
                      /\ Range(next.hits) = inR
                      /\ NoDuplicates(next.hits)
                      /\ next.total \in RollTotals(tile.damage)
                      /\ lastDamage' = [actorId |-> tokens[Head(next.hits)].actorId,
                                        total |-> next.total]
            ELSE IF Len(me.hits) > 1
                 THEN /\ next = [me EXCEPT !.hits = Tail(@)]
                      /\ lastDamage' = [actorId |-> tokens[me.hits[2]].actorId,
                                        total |-> me.total]
                 ELSE lastDamage' = lastDamage /\ next.pc # "damaging"

\* C21: when an area trap, one flagged by an explosion radius, triggers, the
\* tokens damaged are exactly those whose center lies at a Euclidean distance
\* of at most R from the trap's center, the boundary included, and each of them
\* takes the same single rolled total.
C21_AreaTrapDamagesWithinRadius ==
    [][ExplosionDamages(FALSE)]_vars

\* C21 as the engine has it: the area traps are the traps of type "Landmine
\* Trap" that carry an explosion size; for those the tokens damaged are exactly
\* those within R, the boundary included, each by the same single rolled total.
C21_LandmineDamagesWithinRadius ==
    [][ExplosionDamages(TRUE)]_vars

\* A Landmine of radius 3 cells has damaged the first token it hit and is now
\* damaging the second, which stands at exactly 3 cells from its center, by the
\* highest total of the roll.
C21_Witness ==
    \E h \in 1..MaxHandlers :
      /\ handlers[h].pc = "damaging"
      /\ isLandmine(tiles[1])
      /\ tiles[1].explosionSize = 4
      /\ handlers[h].hits = <<"t2">>
      /\ handlers[h].total = MaxRoll
      /\ lastDamage = [actorId |-> "a2", total |-> MaxRoll]
      /\ tokens["t2"].x = 3 * GridSize /\ tokens["t2"].y = 0

----------------------------------------------------------------------------
(* The saving throw against paralysis *)

\* The number of "Paralyzed" effects of an actor.
ParalyzedCount(actorEffects) ==
    Cardinality({i \in 1..Len(actorEffects) :
                   actorEffects[i] = ParalyzedEffect})

\* C22: for a trap with the condition "paralyzed" and a configured save DC, the
\* listener goes on to apply the condition exactly when the save total is
\* strictly below that DC; a total equal to the DC, or above it, is reported as
\* resisted and applies nothing. An actor becomes paralyzed only through such a
\* failed save, once for it.
C22_ParalyzedIffBelowDC ==
    [][/\ \A h \in 1..MaxHandlers :
            handlers[h].pc = "saving" /\ handlers'[h] # handlers[h] =>
              LET tile == tiles[Head(handlers[h].traps)]
                  total == lastSave'.total
              IN /\ lastSave'.actorId = tokens[handlers[h].tokenId].actorId
                 /\ total \in SaveTotals
                 /\ effects' = effects
                 /\ IF total < tile.saveDC
                    THEN /\ handlers'[h].pc = "paralyzing"
                         /\ ~lastSave'.resisted
                    ELSE /\ handlers'[h].pc # "paralyzing"
                         /\ lastSave'.resisted
       /\ \A h \in 1..MaxHandlers :
            handlers[h].pc = "paralyzing" /\ handlers'[h] # handlers[h] =>
              LET actorId == tokens[handlers[h].tokenId].actorId
              IN effects' = [effects EXCEPT
                               ![actorId] = Append(@, ParalyzedEffect)]
       /\ \A a \in ActorIds :
            ParalyzedCount(effects'[a]) # ParalyzedCount(effects[a]) =>
              \E h \in 1..MaxHandlers :
                /\ handlers[h].pc = "paralyzing"
                /\ handlers'[h] # handlers[h]
                /\ tokens[handlers[h].tokenId].actorId = a]_vars

====
